---- MODULE Spec2Model ----
(***************************************************************************)
(* Kitchen Sink Lite MCP server (kitchen_sink_server_python/main.py).      *)
(*                                                                         *)
(* The server holds one piece of process-wide state, the lru_cache of      *)
(* load_widget_html, and reads the asset directory, which the build        *)
(* pipeline may rewrite at any time.  Two callers (the host application    *)
(* and the rendered widget) fetch the template resource and call the two   *)
(* tools.  All handlers are coroutines without an await in their body, so  *)
(* on the single event loop each handler body runs as one step; requests   *)
(* of different callers interleave in any order, and a caller may still    *)
(* hold an old response while the other caller's requests are served.      *)
(*                                                                         *)
(* Python values are modelled as: a str s is <<s>>, None is <<>>; file     *)
(* contents are sequences of byte codes, decoded text is a sequence of     *)
(* character codes; file names are sequences of character codes.           *)
(***************************************************************************)
EXTENDS Integers, Sequences, FiniteSets, TLC

VARIABLES direct, versioned, cache, misses, reads, failed, returned, resp

vars == <<direct, versioned, cache, misses, reads, failed, returned, resp>>

(***************************************************************************)
(* Bounds of the model.                                                    *)
(***************************************************************************)
MaxFiles == 2

MaxFailed == 2

(***************************************************************************)
(* Values.                                                                 *)
(***************************************************************************)
None == <<>>

Str(s) == <<s>>

Clients == {"host", "widget"}

Messages == {"", "Hello"}

Accents == {"#ff0000"}

Details == {"More"}

\* the * part of the versioned file names in the asset directory:
\* "1", "1-", "10" and "9".  As file names,
\* "1-.html" < "1.html" < "10.html" < "9.html", because '-' (45) sorts
\* before '.' (46), '.' before '0' (48), and '1' (49) before '9' (57).
Versions == {<<49>>, <<49, 45>>, <<49, 48>>, <<57>>}

\* file contents on disk (bytes): "<a>" and "<b>\r\n"
Contents == {<<60, 97, 62>>, <<60, 98, 62, 13, 10>>}

(***************************************************************************)
(* Constants of the program.                                               *)
(***************************************************************************)
ASSETS_DIR == "assets"

TEMPLATE_URI == "ui://widget/kitchen-sink-lite.html"

MIME_TYPE == "text/html+skybridge"

\* "kitchen-sink-lite-" and ".html" as character codes
GlobPrefix ==
  <<107, 105, 116, 99, 104, 101, 110, 45, 115, 105, 110, 107, 45,
    108, 105, 116, 101, 45>>

GlobSuffix == <<46, 104, 116, 109, 108>>

FileName(v) == GlobPrefix \o v \o GlobSuffix

(***************************************************************************)
(* Path.read_text(encoding="utf8"): text mode with universal newlines, so  *)
(* "\r\n" and a lone "\r" are both read as "\n".                           *)
(***************************************************************************)
RECURSIVE read_text(_)
read_text(bytes) ==
  IF bytes = <<>> THEN <<>>
  ELSE IF Head(bytes) = 13
       THEN IF Len(bytes) >= 2 /\ bytes[2] = 10
            THEN <<10>> \o read_text(Tail(Tail(bytes)))
            ELSE <<10>> \o read_text(Tail(bytes))
       ELSE <<Head(bytes)>> \o read_text(Tail(bytes))

(***************************************************************************)
(* Ordering of Path objects in one directory: str comparison of the file   *)
(* names, code point by code point, a proper prefix sorting first.         *)
(***************************************************************************)
RECURSIVE StrLess(_, _)
StrLess(a, b) ==
  IF b = <<>> THEN FALSE
  ELSE IF a = <<>> THEN TRUE
  ELSE IF Head(a) # Head(b) THEN Head(a) < Head(b)
  ELSE StrLess(Tail(a), Tail(b))

PathLess(v, w) == StrLess(FileName(v), FileName(w))

\* ASSETS_DIR.glob("kitchen-sink-lite-*.html"): the versioned files present
glob == DOMAIN versioned

RECURSIVE sorted(_)
sorted(S) ==
  IF S = {} THEN <<>>
  ELSE LET least == CHOOSE v \in S : \A w \in S \ {v} : PathLess(v, w)
       IN <<least>> \o sorted(S \ {least})

\* (the source quotes the command with backquotes, written ' here)
MissingAssetMessage ==
  "Widget HTML for kitchen-sink-lite not found in " \o ASSETS_DIR
    \o ". Run 'pnpm run build' from the repo root to generate assets."

Returned(text) == [raised |-> "", message |-> "", value |-> text]

Raised(type, msg) == [raised |-> type, message |-> msg, value |-> <<>>]

\* mutant: the first candidate of the sorted list is read, not the last
load_widget_html_first ==
  IF direct # <<>> THEN Returned(read_text(direct[1]))
  ELSE LET candidates == sorted(glob)
       IN IF candidates # <<>>
          THEN Returned(read_text(versioned[candidates[1]]))
          ELSE Raised("FileNotFoundError", MissingAssetMessage)

\* mutant: a missing asset yields an empty page instead of an error
load_widget_html_empty ==
  IF direct # <<>> THEN Returned(read_text(direct[1]))
  ELSE LET candidates == sorted(glob)
       IN IF candidates # <<>>
          THEN Returned(read_text(versioned[candidates[Len(candidates)]]))
          ELSE Returned(<<>>)

\* the body of load_widget_html, run on a cache miss
load_widget_html ==
  IF direct # <<>> THEN Returned(read_text(direct[1]))
  ELSE LET candidates == sorted(glob)
       IN IF candidates # <<>>
          THEN Returned(read_text(versioned[candidates[Len(candidates)]]))
          ELSE Raised("FileNotFoundError", MissingAssetMessage)

(***************************************************************************)
(* functools.lru_cache(maxsize=None) around load_widget_html, which takes  *)
(* no argument: the cache has at most one entry.  A hit returns the entry; *)
(* a miss counts, runs the body and stores the value only when the body    *)
(* returns.  An exception of the body propagates and stores nothing.       *)
(***************************************************************************)
\* mutant: no cache, the body runs on every call
lru_cache_call_uncached ==
  LET out == load_widget_html
  IN [out |-> out,
      cache |-> IF out.raised = "" THEN <<out.value>> ELSE cache,
      misses |-> misses + 1,
      reads |-> IF out.raised = "" THEN reads + 1 ELSE reads]

\* mutant: the entry is reloaded when the disk no longer holds its text
lru_cache_call_invalidating ==
  LET out == load_widget_html
  IN IF cache # <<>> /\ (out.raised # "" \/ out.value = cache[1])
     THEN [out |-> Returned(cache[1]), cache |-> cache,
           misses |-> misses, reads |-> reads]
     ELSE [out |-> out,
           cache |-> IF out.raised = "" THEN <<out.value>> ELSE cache,
           misses |-> misses + 1,
           reads |-> IF out.raised = "" THEN reads + 1 ELSE reads]

\* mutant: a failed load is remembered as an empty page
lru_cache_call_negative ==
  IF cache # <<>>
  THEN [out |-> Returned(cache[1]), cache |-> cache,
        misses |-> misses, reads |-> reads]
  ELSE LET out == load_widget_html
       IN [out |-> out,
           cache |-> IF out.raised = "" THEN <<out.value>> ELSE <<<<>>>>,
           misses |-> misses + 1,
           reads |-> IF out.raised = "" THEN reads + 1 ELSE reads]

lru_cache_call ==
  IF cache # <<>>
  THEN [out |-> Returned(cache[1]), cache |-> cache,
        misses |-> misses, reads |-> reads]
  ELSE LET out == load_widget_html
       IN [out |-> out,
           cache |-> IF out.raised = "" THEN <<out.value>> ELSE cache,
           misses |-> misses + 1,
           reads |-> IF out.raised = "" THEN reads + 1 ELSE reads]

(***************************************************************************)
(* WidgetPayload and its JSON dump.                                        *)
(***************************************************************************)
PayloadFields == {"message", "accentColor", "details", "fromTool"}

\* WidgetPayload(**kw): fields left out take the defaults of the class
WidgetPayload(kw) ==
  [message |-> kw["message"],
   accentColor |-> IF "accentColor" \in DOMAIN kw THEN kw["accentColor"]
                   ELSE Str("#2d6cdf"),
   details |-> IF "details" \in DOMAIN kw THEN kw["details"] ELSE None,
   fromTool |-> IF "fromTool" \in DOMAIN kw THEN kw["fromTool"]
                ELSE Str("kitchen-sink-show")]

JsonNull == [type |-> "null"]

JsonString(s) == [type |-> "string", value |-> s]

\* payload.model_dump(mode="json"): a str becomes a JSON string, None null
model_dump(payload) ==
  [f \in PayloadFields |->
     IF payload[f] = None THEN JsonNull ELSE JsonString(payload[f][1])]

\* mutant: the invocation name of the Show tool is written into every result
tool_meta_show(invocation) ==
  ("openai/outputTemplate" :> TEMPLATE_URI)
    @@ ("openai/toolInvocation/invoking" :> "Preparing the kitchen sink widget")
    @@ ("openai/toolInvocation/invoked" :> "Widget rendered")
    @@ ("openai/widgetAccessible" :> TRUE)
    @@ ("openai/resultCanProduceWidget" :> TRUE)
    @@ ("invocation" :> "kitchen-sink-show")

tool_meta(invocation) ==
  ("openai/outputTemplate" :> TEMPLATE_URI)
    @@ ("openai/toolInvocation/invoking" :> "Preparing the kitchen sink widget")
    @@ ("openai/toolInvocation/invoked" :> "Widget rendered")
    @@ ("openai/widgetAccessible" :> TRUE)
    @@ ("openai/resultCanProduceWidget" :> TRUE)
    @@ ("invocation" :> invocation)

TextContent(text) == [type |-> "text", text |-> text]

CallToolResult(content, structuredContent, meta, isError) ==
  [content |-> content, structuredContent |-> structuredContent,
   meta |-> meta, isError |-> isError]

\* the identifier under which @mcp.resource serves kitchen_sink_template
kitchen_sink_template_uri == TEMPLATE_URI

(***************************************************************************)
(* The tool handlers.  `arguments` is the JSON object of the call; the     *)
(* parameter binding passes the Field defaults for the keys left out.      *)
(***************************************************************************)
\* mutant: an empty message is replaced by a placeholder
kitchen_sink_show_placeholder(arguments) ==
  LET message == IF arguments["message"] = Str("") THEN Str("(empty)")
                 ELSE arguments["message"]
      accent_color == IF "accentColor" \in DOMAIN arguments
                      THEN arguments["accentColor"] ELSE Str("#2d6cdf")
      details == IF "details" \in DOMAIN arguments
                 THEN arguments["details"] ELSE None
      payload == WidgetPayload([message |-> message,
                                accentColor |-> accent_color,
                                details |-> details,
                                fromTool |-> Str("kitchen-sink-show")])
  IN CallToolResult(
       <<TextContent("Widget ready with message: " \o payload.message[1])>>,
       model_dump(payload),
       tool_meta("kitchen-sink-show"),
       FALSE)

\* mutant: accent_color is not passed on to the payload
kitchen_sink_show_no_accent(arguments) ==
  LET message == arguments["message"]
      details == IF "details" \in DOMAIN arguments
                 THEN arguments["details"] ELSE None
      payload == WidgetPayload([message |-> message,
                                details |-> details,
                                fromTool |-> Str("kitchen-sink-show")])
  IN CallToolResult(
       <<TextContent("Widget ready with message: " \o payload.message[1])>>,
       model_dump(payload),
       tool_meta("kitchen-sink-show"),
       FALSE)

kitchen_sink_show(arguments) ==
  LET message == arguments["message"]
      accent_color == IF "accentColor" \in DOMAIN arguments
                      THEN arguments["accentColor"] ELSE Str("#2d6cdf")
      details == IF "details" \in DOMAIN arguments
                 THEN arguments["details"] ELSE None
      payload == WidgetPayload([message |-> message,
                                accentColor |-> accent_color,
                                details |-> details,
                                fromTool |-> Str("kitchen-sink-show")])
  IN CallToolResult(
       <<TextContent("Widget ready with message: " \o payload.message[1])>>,
       model_dump(payload),
       tool_meta("kitchen-sink-show"),
       FALSE)

\* mutant: the payload of Refresh is left to the defaults of WidgetPayload
kitchen_sink_refresh_defaults(arguments) ==
  LET message == arguments["message"]
      payload == WidgetPayload([message |-> message,
                                fromTool |-> Str("kitchen-sink-refresh")])
  IN CallToolResult(
       <<TextContent(payload.message[1])>>,
       model_dump(payload),
       tool_meta("kitchen-sink-refresh"),
       FALSE)

kitchen_sink_refresh(arguments) ==
  LET message == arguments["message"]
      payload == WidgetPayload([message |-> message,
                                accentColor |-> Str("#2d6cdf"),
                                details |-> Str("This response came from the widget via window.openai.callTool."),
                                fromTool |-> Str("kitchen-sink-refresh")])
  IN CallToolResult(
       <<TextContent(payload.message[1])>>,
       model_dump(payload),
       tool_meta("kitchen-sink-refresh"),
       FALSE)

(***************************************************************************)
(* Calls the two callers can make.                                         *)
(***************************************************************************)
NoArg == <<>>

ShowArguments ==
  {("message" :> Str(m)) @@ a @@ d :
     m \in Messages,
     a \in {NoArg} \cup {("accentColor" :> Str(x)) : x \in Accents},
     d \in {NoArg} \cup {("details" :> Str(y)) : y \in Details}
            \cup {("details" :> None)}}

RefreshArguments == {("message" :> Str(m)) : m \in Messages}

NoResponse == [kind |-> "none"]

Idle(c) == resp[c].kind = "none"

(***************************************************************************)
(* The state after import of the module: nothing cached, any asset         *)
(* directory the build may have left.                                      *)
(***************************************************************************)
Init ==
  /\ direct \in {<<>>} \cup {<<b>> : b \in Contents}
  /\ versioned = <<>>
  /\ cache = <<>>
  /\ misses = 0
  /\ reads = 0
  /\ failed = 0
  /\ returned = {}
  /\ resp = [c \in Clients |-> NoResponse]

(***************************************************************************)
(* The asset directory is rewritten by the build, outside the process.     *)
(***************************************************************************)
WriteDirect(b) ==
  /\ direct # <<b>>
  /\ direct' = <<b>>
  /\ UNCHANGED <<versioned, cache, misses, reads, failed, returned, resp>>

DeleteDirect ==
  /\ direct # <<>>
  /\ direct' = <<>>
  /\ UNCHANGED <<versioned, cache, misses, reads, failed, returned, resp>>

WriteVersioned(v, b) ==
  /\ \/ v \in DOMAIN versioned /\ versioned[v] # b
     \/ v \notin DOMAIN versioned /\ Cardinality(DOMAIN versioned) < MaxFiles
  /\ versioned' = [w \in DOMAIN versioned \cup {v} |->
                     IF w = v THEN b ELSE versioned[w]]
  /\ UNCHANGED <<direct, cache, misses, reads, failed, returned, resp>>

DeleteVersioned(v) ==
  /\ v \in DOMAIN versioned
  /\ versioned' = [w \in DOMAIN versioned \ {v} |-> versioned[w]]
  /\ UNCHANGED <<direct, cache, misses, reads, failed, returned, resp>>

(***************************************************************************)
(* resources/read of TEMPLATE_URI: kitchen_sink_template.                  *)
(* `stale` records whether the text differs from what the disk holds at    *)
(* the time of the fetch; `returned` collects every text ever returned;    *)
(* `failed` counts the fetches that raised.                                *)
(***************************************************************************)
kitchen_sink_template(c) ==
  /\ Idle(c)
  /\ LET call == lru_cache_call
     IN /\ call.out.raised # "" => failed < MaxFailed
        /\ cache' = call.cache
        /\ misses' = call.misses
        /\ reads' = call.reads
        /\ failed' = IF call.out.raised # "" THEN failed + 1 ELSE failed
        /\ returned' = IF call.out.raised = ""
                       THEN returned \cup {call.out.value} ELSE returned
        /\ resp' = [resp EXCEPT ![c] =
                      [kind |-> "resource",
                       uri |-> kitchen_sink_template_uri,
                       mimeType |-> MIME_TYPE,
                       out |-> call.out,
                       stale |-> call.out # load_widget_html]]
  /\ UNCHANGED <<direct, versioned>>

\* mutant: the Show handler loads the widget HTML before it answers
CallShow_loading(c, arguments) ==
  /\ Idle(c)
  /\ LET call == lru_cache_call
     IN /\ cache' = call.cache
        /\ misses' = call.misses
        /\ reads' = call.reads
        /\ resp' = [resp EXCEPT ![c] =
                      [kind |-> "tool", name |-> "kitchen_sink_show",
                       arguments |-> arguments,
                       result |-> IF call.out.raised = ""
                                  THEN kitchen_sink_show(arguments)
                                  ELSE [kitchen_sink_show(arguments)
                                          EXCEPT !.isError = TRUE]]]
  /\ UNCHANGED <<direct, versioned, failed, returned>>

CallShow(c, arguments) ==
  /\ Idle(c)
  /\ resp' = [resp EXCEPT ![c] =
                [kind |-> "tool", name |-> "kitchen_sink_show",
                 arguments |-> arguments,
                 result |-> kitchen_sink_show(arguments)]]
  /\ UNCHANGED <<direct, versioned, cache, misses, reads, failed, returned>>

CallRefresh(c, arguments) ==
  /\ Idle(c)
  /\ resp' = [resp EXCEPT ![c] =
                [kind |-> "tool", name |-> "kitchen_sink_refresh",
                 arguments |-> arguments,
                 result |-> kitchen_sink_refresh(arguments)]]
  /\ UNCHANGED <<direct, versioned, cache, misses, reads, failed, returned>>

\* the caller takes the response and is free to call again
Receive(c) ==
  /\ ~Idle(c)
  /\ resp' = [resp EXCEPT ![c] = NoResponse]
  /\ UNCHANGED <<direct, versioned, cache, misses, reads, failed, returned>>

Next ==
  \/ \E b \in Contents : WriteDirect(b)
  \/ DeleteDirect
  \/ \E v \in Versions, b \in Contents : WriteVersioned(v, b)
  \/ \E v \in Versions : DeleteVersioned(v)
  \/ \E c \in Clients : kitchen_sink_template(c)
  \/ \E c \in Clients, arguments \in ShowArguments : CallShow(c, arguments)
  \/ \E c \in Clients, arguments \in RefreshArguments : CallRefresh(c, arguments)
  \/ \E c \in Clients : Receive(c)

Spec == Init /\ [][Next]_vars

(***************************************************************************)
(* Vocabulary of the properties.                                           *)
(***************************************************************************)
IsShow(r) == r.kind = "tool" /\ r.name = "kitchen_sink_show"

IsRefresh(r) == r.kind = "tool" /\ r.name = "kitchen_sink_refresh"

IsHtml(r) == r.kind = "resource" /\ r.out.raised = ""

IsMissing(r) == r.kind = "resource" /\ r.out.raised # ""

\* in a step: caller c's fetch of the template is served
Fetched(c) == Idle(c) /\ resp'[c].kind = "resource"

\* in a step: caller c's tool call is served
ToolCalled(c) == Idle(c) /\ resp'[c].kind = "tool"

NoAsset == direct = <<>> /\ DOMAIN versioned = {}

\* the texts of the files now in the asset directory
TextsOnDisk ==
  {read_text(direct[i]) : i \in DOMAIN direct}
    \cup {read_text(versioned[v]) : v \in DOMAIN versioned}

DefaultAccent == "#2d6cdf"

RefreshDetails ==
  "This response came from the widget via window.openai.callTool."

\* C1: every result of Show is non-error, its structured content carries the
\* message of the call verbatim (never null, the empty string included) and
\* fromTool "kitchen-sink-show", whatever accentColor and details were.
C1_ShowEchoesMessage ==
  \A c \in Clients :
    IsShow(resp[c]) =>
      LET content == resp[c].result.structuredContent
      IN /\ resp[c].result.isError = FALSE
         /\ content["message"] # JsonNull
         /\ content["message"] = JsonString(resp[c].arguments["message"][1])
         /\ content["fromTool"] = JsonString("kitchen-sink-show")

C1_Witness ==
  \E c \in Clients :
    /\ IsShow(resp[c])
    /\ resp[c].arguments["message"] = Str("")
    /\ DOMAIN resp[c].arguments = {"message", "accentColor", "details"}
    /\ resp[c].result.structuredContent["message"] = JsonString("")

\* C2: every result of Refresh carries the message of the call, accentColor
\* "#2d6cdf", the fixed details text and fromTool "kitchen-sink-refresh",
\* whatever calls were served before it.
C2_RefreshFixedFields ==
  \A c \in Clients :
    IsRefresh(resp[c]) =>
      LET content == resp[c].result.structuredContent
      IN /\ content["message"] = JsonString(resp[c].arguments["message"][1])
         /\ content["accentColor"] = JsonString(DefaultAccent)
         /\ content["details"] = JsonString(RefreshDetails)
         /\ content["fromTool"] = JsonString("kitchen-sink-refresh")

C2_Witness ==
  \E c, d \in Clients :
    /\ IsShow(resp[d])
    /\ "accentColor" \in DOMAIN resp[d].arguments
    /\ "details" \in DOMAIN resp[d].arguments
    /\ IsRefresh(resp[c])
    /\ resp[c].result.structuredContent["details"] = JsonString(RefreshDetails)

\* C3: in a result of Show, accentColor is "#2d6cdf" when the call left it
\* out and the supplied value otherwise; details is null when the call left
\* it out and the supplied value otherwise; each independently of the other.
C3_ShowDefaults ==
  \A c \in Clients :
    IsShow(resp[c]) =>
      LET arguments == resp[c].arguments
          content == resp[c].result.structuredContent
      IN /\ content["accentColor"] =
              IF "accentColor" \in DOMAIN arguments
              THEN JsonString(arguments["accentColor"][1])
              ELSE JsonString(DefaultAccent)
         /\ content["details"] =
              IF "details" \in DOMAIN arguments /\ arguments["details"] # None
              THEN JsonString(arguments["details"][1])
              ELSE JsonNull

C3_Witness ==
  \E c, d \in Clients :
    /\ IsShow(resp[c])
    /\ DOMAIN resp[c].arguments = {"message", "details"}
    /\ resp[c].result.structuredContent["accentColor"] = JsonString(DefaultAccent)
    /\ resp[c].result.structuredContent["details"] # JsonNull
    /\ IsShow(resp[d])
    /\ DOMAIN resp[d].arguments = {"message", "accentColor"}
    /\ resp[d].result.structuredContent["accentColor"] # JsonString(DefaultAccent)
    /\ resp[d].result.structuredContent["details"] = JsonNull

\* C4: once a fetch of the template has returned HTML, every later fetch
\* returns that same text, without a lookup or a read of the asset
\* directory, whatever has happened to the files since.
C4_FetchTwiceIdentical ==
  [][\A c \in Clients :
       (Fetched(c) /\ returned # {}) =>
         /\ IsHtml(resp'[c])
         /\ resp'[c].out.value \in returned
         /\ returned' = returned
         /\ Cardinality(returned') = 1
         /\ misses' = misses
         /\ reads' = reads]_vars

C4_Witness ==
  \E c, d \in Clients :
    /\ c # d
    /\ IsHtml(resp[c])
    /\ IsHtml(resp[d])
    /\ resp[c].stale
    /\ resp[c].out.value = resp[d].out.value
    /\ resp[c].out.value \notin TextsOnDisk

\* C5: a fetch served while nothing is cached and the asset directory holds
\* neither kitchen-sink-lite.html nor a versioned file raises the missing
\* asset error, returns no content and stores nothing in the cache; and no
\* fetch ever returns a text that is not the text of an asset file.
C5_MissingAssetFails ==
  [][\A c \in Clients :
       Fetched(c) =>
         /\ (cache = <<>> /\ NoAsset) =>
              /\ resp'[c].out.raised = "FileNotFoundError"
              /\ resp'[c].out.message = MissingAssetMessage
              /\ resp'[c].out.value = <<>>
              /\ cache' = <<>>
              /\ returned' = returned
         /\ IsHtml(resp'[c]) =>
              resp'[c].out.value \in {read_text(b) : b \in Contents}]_vars

C5_Witness ==
  \E c \in Clients :
    /\ IsMissing(resp[c])
    /\ cache = <<>>
    /\ returned = {}
    /\ misses = 1
    /\ NoAsset

\* C6: in every interleaving of fetches and tool calls the cache entry is
\* written at most once and never changes afterwards, the asset is read
\* from disk at most once, and all fetches that return HTML return the
\* same text.
C6_CacheWrittenOnce ==
  [][/\ cache # <<>> => cache' = cache
     /\ cache' # cache => reads = 0
     /\ reads' <= 1
     /\ \A c, d \in Clients :
          (IsHtml(resp'[c]) /\ IsHtml(resp'[d])) =>
            /\ resp'[c].out.value = resp'[d].out.value
            /\ cache' = <<resp'[c].out.value>>]_vars

C6_Witness ==
  \E c, d \in Clients :
    /\ c # d
    /\ IsHtml(resp[c])
    /\ IsHtml(resp[d])
    /\ reads = 1
    /\ failed >= 1
    /\ TextsOnDisk # {}
    /\ cache[1] \notin TextsOnDisk

\* C7: a fetch served while nothing is cached returns the text of
\* kitchen-sink-lite.html when that file exists, however many versioned
\* files there are; otherwise, when versioned files exist, the text of the
\* one whose file name is lexicographically last, and of no other.
C7_DirectThenLastVersioned ==
  [][\A c \in Clients :
       (Fetched(c) /\ cache = <<>>) =>
         IF direct # <<>>
         THEN resp'[c].out = Returned(read_text(direct[1]))
         ELSE \A v \in DOMAIN versioned :
                (\A w \in DOMAIN versioned \ {v} :
                   StrLess(FileName(w), FileName(v)))
                  => resp'[c].out = Returned(read_text(versioned[v]))]_vars

C7_Witness ==
  \E c \in Clients :
    /\ IsHtml(resp[c])
    /\ ~resp[c].stale
    /\ misses = 1
    /\ direct = <<>>
    /\ DOMAIN versioned = {<<49>>, <<49, 45>>}
    /\ versioned[<<49>>] # versioned[<<49, 45>>]
    /\ resp[c].out.value = read_text(versioned[<<49>>])
    /\ resp[c].out.value # read_text(versioned[<<49, 45>>])

\* C8: a tool call leaves the HTML cache and its counters as they were,
\* returns a non-error result whether or not an asset exists or is cached,
\* and returns the result that any earlier call of the same tool with the
\* same arguments returned.
C8_ToolsPure ==
  [][\A c \in Clients :
       ToolCalled(c) =>
         /\ cache' = cache
         /\ misses' = misses
         /\ reads' = reads
         /\ resp'[c].result.isError = FALSE
         /\ \A d \in Clients \ {c} :
              ( /\ resp[d].kind = "tool"
                /\ resp[d].name = resp'[c].name
                /\ resp[d].arguments = resp'[c].arguments )
                => resp[d].result = resp'[c].result]_vars

C8_Witness ==
  \E c, d \in Clients :
    /\ c # d
    /\ IsShow(resp[c])
    /\ IsShow(resp[d])
    /\ resp[c].arguments = resp[d].arguments
    /\ resp[c].result = resp[d].result
    /\ cache = <<>>
    /\ NoAsset
    /\ failed >= 1

\* C9: a failed load is not remembered.  A fetch served after failed
\* fetches, once an asset file exists, looks the directory up again, returns
\* the text of an asset file and caches it; and the number of lookups is
\* always the number of failed fetches, plus one if a fetch has succeeded.
C9_FailureNotCached ==
  [][\A c \in Clients :
       Fetched(c) =>
         /\ (failed >= 1 /\ returned = {} /\ ~NoAsset) =>
              /\ misses' = misses + 1
              /\ IsHtml(resp'[c])
              /\ resp'[c].out.value \in TextsOnDisk
              /\ cache' = <<resp'[c].out.value>>
         /\ misses' = failed' + (IF returned' # {} THEN 1 ELSE 0)]_vars

C9_Witness ==
  \E c \in Clients :
    /\ IsHtml(resp[c])
    /\ ~resp[c].stale
    /\ failed = 2
    /\ misses = 3
    /\ cache = <<resp[c].out.value>>

\* C10: every tool result is non-error and its metadata names the template
\* identifier under which the template resource is served, the two fixed
\* status strings, and an invocation equal to fromTool of the structured
\* content of the same result; the text of a Show result is
\* "Widget ready with message: " followed by the message.
C10_ResultMetadata ==
  \A c \in Clients :
    /\ resp[c].kind = "tool" =>
         LET result == resp[c].result
         IN /\ result.isError = FALSE
            /\ result.meta["openai/outputTemplate"] = kitchen_sink_template_uri
            /\ result.meta["openai/outputTemplate"]
                 = "ui://widget/kitchen-sink-lite.html"
            /\ result.meta["openai/toolInvocation/invoking"]
                 = "Preparing the kitchen sink widget"
            /\ result.meta["openai/toolInvocation/invoked"] = "Widget rendered"
            /\ JsonString(result.meta["invocation"])
                 = result.structuredContent["fromTool"]
            /\ IsShow(resp[c]) =>
                 result.content = <<TextContent("Widget ready with message: "
                                      \o resp[c].arguments["message"][1])>>
    /\ resp[c].kind = "resource" =>
         \A d \in Clients :
           resp[d].kind = "tool" =>
             resp[d].result.meta["openai/outputTemplate"] = resp[c].uri

C10_Witness ==
  \E c, d \in Clients :
    /\ resp[c].kind = "resource"
    /\ IsRefresh(resp[d])
    /\ resp[d].result.meta["invocation"] = "kitchen-sink-refresh"
    /\ resp[d].result.meta["openai/outputTemplate"] = resp[c].uri

====
